---- MODULE Spec2Model ----
(***************************************************************************)
(* A model of support/post-reviews.py: the chained review submitter.      *)
(*                                                                         *)
(* Strings are sequences of atoms.  An atom is either a single character  *)
(* (a member of CharAtoms) or an opaque run of letters such as "reviews"  *)
(* that no operation of the script looks inside.  Python's None is the    *)
(* empty sequence <<>> and a present value v is <<v>>.  A commit hash is  *)
(* modelled by the content it names: parent, message and diff.            *)
(***************************************************************************)
EXTENDS Integers, Sequences, FiniteSets, TLC

\* ------------------------------------------------------------------ bounds

\* The longest commit chain between the merge base and HEAD.
MaxChain == 3

\* The longest review request id trailer detection is applied to.
MaxIdLen == 2

\* How many times the script is run on the same branch.
MaxRuns == 2

\* mesos-style.py: how many files the source roots hold, and how many file
\* paths are given on the command line.
MaxFiles == 2

MaxArgs == 2

\* ----------------------------------------------------------------- strings

Digits == {"0", "1", "2", "3", "4", "5", "6", "7", "8", "9"}

CharAtoms == Digits \cup {"/", ".", "-", " ", "\n", "d", "i", "f"}

Whitespace == {" ", "\n"}

None == <<>>

Some(v) == <<v>>

DigitVal(c) ==
  CASE c = "0" -> 0 [] c = "1" -> 1 [] c = "2" -> 2 [] c = "3" -> 3
    [] c = "4" -> 4 [] c = "5" -> 5 [] c = "6" -> 6 [] c = "7" -> 7
    [] c = "8" -> 8 [] c = "9" -> 9

\* s[k..] begins with pat.
StartsWithAt(s, k, pat) ==
  /\ k >= 1
  /\ k + Len(pat) - 1 <= Len(s)
  /\ \A n \in 1..Len(pat) : s[k + n - 1] = pat[n]

EndsWith(s, pat) == StartsWithAt(s, Len(s) - Len(pat) + 1, pat)

\* str.find: the first index (from 1) at which pat occurs, 0 for Python's -1.
Find(s, pat) ==
  LET hits == {k \in 1..Len(s) : StartsWithAt(s, k, pat)}
  IN  IF hits = {} THEN 0 ELSE CHOOSE k \in hits : \A h \in hits : k <= h

\* str.replace(old, new): every non-overlapping occurrence, left to right.
RECURSIVE Replace(_, _, _)
Replace(s, old, new) ==
  IF s = <<>> THEN <<>>
  ELSE IF StartsWithAt(s, 1, old)
       THEN new \o Replace(SubSeq(s, Len(old) + 1, Len(s)), old, new)
       ELSE <<Head(s)>> \o Replace(Tail(s), old, new)

RECURSIVE LStrip(_, _)
LStrip(s, chars) ==
  IF s # <<>> /\ Head(s) \in chars THEN LStrip(Tail(s), chars) ELSE s

RECURSIVE RStrip(_, _)
RStrip(s, chars) ==
  IF s # <<>> /\ s[Len(s)] \in chars
  THEN RStrip(SubSeq(s, 1, Len(s) - 1), chars)
  ELSE s

\* str.strip(chars); str.strip() is Strip(s, Whitespace).
Strip(s, chars) == RStrip(LStrip(s, chars), chars)

\* str.split(sep) for a one-atom separator: always at least one piece.
RECURSIVE Split(_, _)
Split(s, sep) ==
  LET k == Find(s, <<sep>>)
  IN  IF k = 0 THEN <<s>>
      ELSE <<SubSeq(s, 1, k - 1)>> \o Split(SubSeq(s, k + 1, Len(s)), sep)

\* sep.join(parts)
RECURSIVE Join(_, _)
Join(sep, parts) ==
  IF parts = <<>> THEN <<>>
  ELSE IF Len(parts) = 1 THEN parts[1]
  ELSE parts[1] \o sep \o Join(sep, Tail(parts))

\* The path itself.
Basename_Whole(path) == path

\* os.path.basename: what follows the last "/".
RECURSIVE Basename(_)
Basename(path) ==
  LET k == Find(path, <<"/">>)
  IN  IF k = 0 THEN path ELSE Basename(SubSeq(path, k + 1, Len(path)))

\* The longest run of digits of s that starts at k (its length).
RECURSIVE DigitRun(_, _)
DigitRun(s, k) ==
  IF k <= Len(s) /\ s[k] \in Digits THEN 1 + DigitRun(s, k + 1) ELSE 0

\* ------------------------------------------------------- version comparison

\* distutils LooseVersion.parse: the string is cut into runs of digits, runs
\* of lower-case letters, dots and whatever lies between; the dots are
\* dropped and each run of digits becomes a number.  A component is a record:
\* num for a number (text ""), text otherwise (num 0).
VersionComponent(a) ==
  IF a \in Digits THEN [isnum |-> TRUE, num |-> DigitVal(a), text |-> ""]
  ELSE [isnum |-> FALSE, num |-> 0, text |-> a]

RECURSIVE LooseVersion(_)
LooseVersion(vstring) ==
  IF vstring = <<>> THEN <<>>
  ELSE IF Head(vstring) = "." THEN LooseVersion(Tail(vstring))
  ELSE <<VersionComponent(Head(vstring))>> \o LooseVersion(Tail(vstring))

\* Python 2 orders a number before any string; two strings compare as text
\* (only equality is needed between the version strings compared here).
ComponentLess(a, b) ==
  IF a.isnum /\ b.isnum THEN a.num < b.num
  ELSE IF a.isnum # b.isnum THEN a.isnum
  ELSE FALSE

\* cmp of two lists: the first differing component decides, else the length.
RECURSIVE VersionAtLeast(_, _)
VersionAtLeast(v, w) ==
  IF w = <<>> THEN TRUE
  ELSE IF v = <<>> THEN FALSE
  ELSE IF Head(v) = Head(w) THEN VersionAtLeast(Tail(v), Tail(w))
  ELSE ~ComponentLess(Head(v), Head(w))

\* The literals of lines 346 and 349.
RBTools_0_6 == LooseVersion(<<"RBT", "ools", " ", "0", ".", "6">>)

RBTools_0_6_1 == LooseVersion(<<"RBT", "ools", " ", "0", ".", "6", ".", "1">>)

\* What `rbt --version` prints: the version and the line end.
RbtVersionOutputs ==
  { <<"RBT", "ools", " ", "0", ".", "5", ".", "7", "\n">>,
    <<"RBT", "ools", " ", "0", ".", "6", "\n">>,
    <<"RBT", "ools", " ", "0", ".", "6", ".", "1", "\n">> }

\* ------------------------------------------------------------ review trailer

\* args.server / REVIEWBOARD_URL / the default of line 211.
reviewboard_url == <<"https:", "/", "/", "reviews", ".", "apache", ".", "org">>

ReviewWord == "Review:"

\* One regular-expression item against one atom: "." is the wildcard (any
\* character but a line end), every other atom of the pattern is literal.
ItemMatches(p, a) ==
  IF p = "." THEN a \in CharAtoms \ {"\n"} ELSE a = p

\* url_pattern of line 285 up to the digits: <base without slashes>/r/
url_pattern_prefix == Strip(reviewboard_url, {"/"}) \o <<"/", "r", "/">>

\* 'Review: (<url_pattern>)$' tried at index k of text; the end of the
\* matched url, or 0.  "$" holds at the end and before a final line end.
TrailerMatchAt(text, k) ==
  LET lit    == <<ReviewWord, " ">> \o url_pattern_prefix
      d      == k + Len(lit)
      n      == DigitRun(text, d)
      e      == d + n - 1
  IN  IF /\ k + Len(lit) - 1 <= Len(text)
         /\ \A m \in 1..Len(lit) : ItemMatches(lit[m], text[k + m - 1])
         /\ n >= 1
         /\ \/ e = Len(text)
            \/ e + 1 = Len(text) /\ text[e + 1] = "\n"
      THEN e ELSE 0

\* pattern.search(message.strip().strip('/')), lines 286-293: group(1) of the
\* leftmost match as Some(url), or None.
TrailerSearch(message) ==
  LET text == Strip(Strip(message, Whitespace), {"/"})
      hits == {k \in 1..Len(text) : TrailerMatchAt(text, k) # 0}
  IN  IF hits = {} THEN None
      ELSE LET k == CHOOSE h \in hits : \A g \in hits : h <= g
           IN  Some(SubSeq(text, k + 2, TrailerMatchAt(text, k)))

\* ---------------------------------------------------------------- commits

\* A commit: its parent (None for the root), its stored message and its diff.
Commit(parent, msg, diff) == [parent |-> parent, msg |-> msg, diff |-> diff]

\* The commit the tracking branch and the working branch share.
BaseCommit == Commit(None, <<"base", "\n">>, 0)

RECURSIVE Ancestors(_)
Ancestors(c) ==
  IF c.parent = None THEN {c} ELSE {c} \cup Ancestors(c.parent[1])

\* git log / rev-list from..to: the commits reachable from `to` and not
\* from `from`, newest first.
RECURSIVE RevList(_, _)
RevList(from, to) ==
  IF to \in Ancestors(from) THEN <<>>
  ELSE IF to.parent = None THEN <<to>>
  ELSE <<to>> \o RevList(from, to.parent[1])

Reverse(s) == [k \in 1..Len(s) |-> s[Len(s) + 1 - k]]

\* --pretty=format:%s%n%n%b of one commit: the subject (the first line), an
\* empty line, and the body (what follows the empty line after the subject).
LogFormatOne(c) ==
  LET k    == Find(c.msg, <<"\n">>)
      subj == IF k = 0 THEN c.msg ELSE SubSeq(c.msg, 1, k - 1)
      rest == IF k = 0 THEN <<>> ELSE SubSeq(c.msg, k, Len(c.msg))
  IN  subj \o <<"\n", "\n">> \o LStrip(rest, {"\n"})

\* git log --pretty=format:... from..to: the commits newest first, each
\* separated from the next by a line end.
LogFormat(from, to) ==
  Join(<<"\n">>, [k \in 1..Len(RevList(from, to)) |->
                    LogFormatOne(RevList(from, to)[k])])

\* git's clean-up of a message given with -m: no space before a line end, no
\* empty line at either end, runs of empty lines collapsed to one, exactly
\* one line end at the end.
RECURSIVE DropTrailingSpace(_)
DropTrailingSpace(s) ==
  IF s = <<>> THEN <<>>
  ELSE LET r == DropTrailingSpace(Tail(s))
       IN  IF Head(s) = " " /\ (r = <<>> \/ Head(r) = "\n") THEN r
           ELSE <<Head(s)>> \o r

RECURSIVE CollapseEmptyLines(_)
CollapseEmptyLines(s) ==
  IF Len(s) < 3 THEN s
  ELSE IF s[1] = "\n" /\ s[2] = "\n" /\ s[3] = "\n"
       THEN CollapseEmptyLines(Tail(s))
       ELSE <<Head(s)>> \o CollapseEmptyLines(Tail(s))

CleanupMessage(m) ==
  LET t == Strip(CollapseEmptyLines(DropTrailingSpace(m)), {"\n"})
  IN  IF t = <<>> THEN <<>> ELSE t \o <<"\n">>

\* git rebase <upstream> with HEAD at head: the commits of upstream..head,
\* oldest first, that no commit of head..upstream already carries as the same
\* patch, replayed onto upstream; each keeps its message and its diff.
RECURSIVE Replay(_, _)
Replay(onto, picks) ==
  IF picks = <<>> THEN onto
  ELSE Replay(Commit(Some(onto), Head(picks).msg, Head(picks).diff),
              Tail(picks))

GitRebase(upstream, head) ==
  LET todo     == Reverse(RevList(upstream, head))
      applied  == {RevList(head, upstream)[k].diff :
                     k \in 1..Len(RevList(head, upstream))}
      IsNew(c) == c.diff \notin applied
  IN  Replay(upstream, SelectSeq(todo, IsNew))

\* ------------------------------------------------------------ environment

OsNames == {"posix", "nt"}

\* "topic" was forked from the tip of its tracking branch; "feature" was
\* forked from a tracking branch that has gained a commit since.
BranchNames == {"master", "topic", "feature"}

\* The exit statuses an external command ends with.
ExitStatuses == {0, 1}

DigitOf(n) ==
  CASE n = 0 -> "0" [] n = 1 -> "1" [] n = 2 -> "2" [] n = 3 -> "3"
    [] n = 4 -> "4" [] n = 5 -> "5" [] n = 6 -> "6" [] n = 7 -> "7"
    [] n = 8 -> "8" [] n = 9 -> "9"

\* The url of review request id on the configured server.
ReviewUrl(id) == Strip(reviewboard_url, {"/"}) \o <<"/", "r", "/">> \o id

TrailerLine(url) == <<ReviewWord, " ">> \o url \o <<"\n">>

Subject(p) == <<"fix", DigitOf(p)>>

\* The commit messages a chain position p may start with: no trailer, a
\* well-formed trailer, a trailer that is no url, a trailer on a host that
\* differs from the configured one in one character.
PlainMessage(p) == Subject(p) \o <<"\n">>

TrailerMessage(p, url) == Subject(p) \o <<"\n", "\n">> \o TrailerLine(url)

OldId(p) == <<"1", DigitOf(p)>>

LookalikeUrl(p) ==
  <<"https:", "/", "/", "reviews", "-", "apache", ".", "org">>
    \o <<"/", "r", "/">> \o OldId(p)

InitialMessages(p) ==
  { PlainMessage(p),
    TrailerMessage(p, ReviewUrl(OldId(p))),
    TrailerMessage(p, <<"not-a-url">>),
    TrailerMessage(p, LookalikeUrl(p)) }

\* The messages the commits of "feature" start with.
FeatureMessages(p) ==
  {PlainMessage(p), TrailerMessage(p, ReviewUrl(OldId(p)))}

RECURSIVE FeatureChains(_)
FeatureChains(n) ==
  IF n = 0 THEN {BaseCommit}
  ELSE {Commit(Some(c), m, n) :
          c \in FeatureChains(n - 1), m \in FeatureMessages(n)}

\* The linear chains of n commits on top of the merge base (their tips).
RECURSIVE Chains(_)
Chains(n) ==
  IF n = 0 THEN {BaseCommit}
  ELSE {Commit(Some(c), m, n) : c \in Chains(n - 1), m \in InitialMessages(n)}

\* The id the server gives its n-th new review request.
ServerId(n) == <<DigitOf(4 + (n \div 10)), DigitOf(n % 10)>>

DiffSegment == <<"d", "i", "f", "f", "/">>

\* What the review client prints for a posted review request at url u.  The
\* script's comments (lines 374-382) are the record of it: post-review prints
\* the review url on the last line; rbt prints it on the second to last
\* line, and from 0.6.3 prints two urls, the second ending in diff/, the
\* selected line then being one that ends in diff/.  So rbt prints the two
\* urls last, or the two urls and one more line; post-review prints one url
\* last, with or without the diff/ segment.
ClientOutputs(client, u) ==
  IF client \in {"rbt", "rbt.cmd"}
  THEN { <<"posted", "\n", "\n">> \o u \o <<"/", "\n">>
           \o u \o <<"/">> \o DiffSegment \o <<"\n">>,
         <<"posted", "\n", "\n">> \o u \o <<"/", "\n">>
           \o u \o <<"/">> \o DiffSegment \o <<"\n", "published", "\n">> }
  ELSE { <<"posted", "\n", "\n">> \o u \o <<"/", "\n">>,
         <<"posted", "\n", "\n">> \o u \o <<"/">> \o DiffSegment \o <<"\n">> }

\* ------------------------------------------------------------------ state

VARIABLES
  os_name,            \* os.name
  branch,             \* the current branch's name (git symbolic-ref HEAD)
  branch_ref,         \* refs/heads/<branch>
  temp_ref,           \* refs/heads/_post-reviews_<branch>, None when absent
  head,               \* HEAD: on "branch", on "temp", or "detached" at a commit
  next_id,            \* how many review requests the server has created
  pc,                 \* the script's position
  atexit,             \* whether the exit handlers of lines 229-232 are registered
  post_review,        \* the client command, None before it is chosen
  rbt_version,        \* LooseVersion of `rbt --version`, None without rbt
  shas, i, j,
  previous, parent_review_request_id, review_request_id,
  message, output, url, old_sha, new_sha,
  exit_code,          \* None while running
  exit_reason,        \* why the process ended
  last_call,          \* the last external command: its status, and whether
                      \* it was run with ignore_errors
  posts,              \* the client invocations of this run, in order
  trace,              \* the events of this run, in order
  created,            \* per chain position: the server's id of a completed create
  orig,               \* the chain the first run started from, oldest first
  run,                \* the number of the run
  source_tree,        \* mesos-style.py: the source files found under the
                      \* source roots, each with its first line
  argv,               \* mesos-style.py: sys.argv[1:]
  candidates,         \* mesos-style.py: the candidates, None before the walk
  filtered_candidates_set,
  license_errors,     \* None until check_license_header has returned
  lint_errors,        \* None until run_lint has returned
  stdout              \* mesos-style.py: the lines printed

gitVars == <<branch, branch_ref, temp_ref, head>>

loopVars == <<shas, i, j, previous, parent_review_request_id,
              review_request_id, message, output, url, old_sha, new_sha>>

clientVars == <<post_review, rbt_version>>

histVars == <<posts, trace, created, orig, run, next_id>>

styleVars == <<source_tree, argv, candidates, filtered_candidates_set,
               license_errors, lint_errors, stdout>>

vars == <<os_name, gitVars, pc, atexit, clientVars, loopVars, exit_code,
          exit_reason, last_call, histVars, styleVars>>

\* The commit HEAD names.
HeadCommit ==
  IF head.on = "branch" THEN branch_ref
  ELSE IF head.on = "temp" THEN temp_ref[1]
  ELSE head.at

OnBranch == [on |-> "branch", at |-> BaseCommit]

OnTemp == [on |-> "temp", at |-> BaseCommit]

Detached(c) == [on |-> "detached", at |-> c]

\* On Windows the client is rbt.cmd (lines 142-145).
rbt_executable == IF os_name = "nt" THEN "rbt.cmd" ELSE "rbt"

\* The commit the tracking branch gained after "feature" was forked from it.
UpstreamCommit == Commit(Some(BaseCommit), <<"upstream", "\n">>, 9)

\* Lines 213-216: the tip of the tracking branch.
tracking_branch == IF branch = "feature" THEN UpstreamCommit ELSE BaseCommit

Event(e, pos) == [e |-> e, pos |-> pos]

Call(status, ignore_errors) ==
  [status |-> status, ignore_errors |-> ignore_errors]

\* The style checker is a separate process: while post-reviews.py runs, its
\* state is empty.
StyleNotStarted ==
  /\ source_tree = <<>>
  /\ argv = <<>>
  /\ candidates = None
  /\ filtered_candidates_set = {}
  /\ license_errors = None
  /\ lint_errors = None
  /\ stdout = <<>>

ScriptStart ==
  /\ pc = "select_client"
  /\ atexit = FALSE
  /\ post_review = None
  /\ rbt_version = None
  /\ shas = <<>>
  /\ i = 1
  /\ j = 1
  /\ previous = BaseCommit
  /\ parent_review_request_id = None
  /\ review_request_id = None
  /\ message = <<>>
  /\ output = <<>>
  /\ url = <<>>
  /\ old_sha = BaseCommit
  /\ new_sha = BaseCommit
  /\ exit_code = None
  /\ exit_reason = "running"
  /\ last_call = Call(0, FALSE)
  /\ posts = <<>>
  /\ trace = <<>>

Init ==
  /\ os_name \in OsNames
  /\ branch \in BranchNames
  /\ \E n \in 0..MaxChain :
       branch_ref \in IF branch = "feature" THEN FeatureChains(n)
                      ELSE Chains(n)
  /\ temp_ref = None
  /\ head = OnBranch
  /\ next_id = 0
  /\ created = [p \in 1..Len(RevList(BaseCommit, branch_ref)) |-> None]
  /\ orig = Reverse(RevList(BaseCommit, branch_ref))
  /\ run = 1
  /\ StyleNotStarted
  /\ ScriptStart

\* ---------------------------------------------------------------- execute

\* Every non-zero status ends the process, best-effort or not.
ExecuteExits_Strict(status, ignore_errors) == status # 0

\* execute (lines 36-66): a non-zero status ends the process with exit code
\* 1 unless the call is made with ignore_errors.
ExecuteExits(status, ignore_errors) == status # 0 /\ ~ignore_errors

\* sys.exit / an uncaught exception: the exit handlers run if registered.
SysExit(code, reason) ==
  /\ exit_code' = Some(code)
  /\ exit_reason' = reason
  /\ pc' = IF atexit THEN "atexit_checkout" ELSE "exited"

Continue(next) ==
  /\ pc' = next
  /\ UNCHANGED <<exit_code, exit_reason>>

\* ------------------------------------------------------------ preconditions

\* Lines 168-178: rbt if `rbt --version` prints something, else post-review
\* if `post-review --version` does, else exit 1.  Both calls ignore errors.
SelectClient ==
  /\ pc = "select_client"
  /\ \/ \E v \in RbtVersionOutputs :
          /\ last_call' = Call(0, TRUE)
          /\ rbt_version' = Some(LooseVersion(v))
          /\ post_review' = Some(<<rbt_executable, "post">>)
          /\ Continue("check_unstaged")
     \/ \E status \in ExitStatuses :
          /\ last_call' = Call(status, TRUE)
          /\ rbt_version' = None
          /\ IF ExecuteExits(status, TRUE)
             THEN post_review' = None /\ SysExit(1, "command")
             ELSE IF status = 0
             THEN post_review' = Some(<<"post-review">>)
                  /\ Continue("check_unstaged")
             ELSE post_review' = None /\ SysExit(1, "no_client")
  /\ UNCHANGED styleVars
  /\ UNCHANGED <<os_name, gitVars, atexit, loopVars, histVars>>

\* Lines 180-185.
CheckUnstaged ==
  /\ pc = "check_unstaged"
  /\ \E status \in ExitStatuses, dirty \in BOOLEAN :
       /\ last_call' = Call(status, FALSE)
       /\ IF ExecuteExits(status, FALSE) THEN SysExit(1, "command")
          ELSE IF dirty THEN SysExit(1, "unstaged")
          ELSE Continue("check_staged")
  /\ UNCHANGED styleVars
  /\ UNCHANGED <<os_name, gitVars, atexit, clientVars, loopVars, histVars>>

\* Lines 187-192.
CheckStaged ==
  /\ pc = "check_staged"
  /\ \E status \in ExitStatuses, dirty \in BOOLEAN :
       /\ last_call' = Call(status, FALSE)
       /\ IF ExecuteExits(status, FALSE) THEN SysExit(1, "command")
          ELSE IF dirty THEN SysExit(1, "staged")
          ELSE Continue("symbolic_ref")
  /\ UNCHANGED styleVars
  /\ UNCHANGED <<os_name, gitVars, atexit, clientVars, loopVars, histVars>>

\* Lines 218-232: the branch must not be master; then the exit handlers are
\* registered.
SymbolicRef ==
  /\ pc = "symbolic_ref"
  /\ \E status \in ExitStatuses :
       /\ last_call' = Call(status, FALSE)
       /\ IF ExecuteExits(status, FALSE)
          THEN SysExit(1, "command") /\ UNCHANGED atexit
          ELSE IF branch = "master"
          THEN SysExit(1, "master") /\ UNCHANGED atexit
          ELSE atexit' = TRUE /\ Continue("discover")
  /\ UNCHANGED styleVars
  /\ UNCHANGED <<os_name, gitVars, clientVars, loopVars, histVars>>

\* Lines 234-267: the merge base, the chain oldest first, and the loop's
\* initial state.  An empty log ends the run with exit code 1.
\* git merge-base a b: the common ancestor of a and b that every other
\* common ancestor is an ancestor of.
MergeBase(a, b) ==
  LET common == Ancestors(a) \cap Ancestors(b)
  IN  CHOOSE c \in common : \A d \in common : d \in Ancestors(c)

\* Line 234.
merge_base == MergeBase(tracking_branch, branch_ref)

\* The text of a git log: a commit's hash is one token, every other
\* character is a token of its own.
ShaToken(c) == [sha |-> Some(c), ch |-> ""]

Ch(a) == [sha |-> None, ch |-> a]

WhitespaceTokens == {Ch(w) : w \in Whitespace}

\* A commit's subject: the first line of its message.
SubjectOf(c) ==
  LET k == Find(c.msg, <<"\n">>)
  IN  IF k = 0 THEN c.msg ELSE SubSeq(c.msg, 1, k - 1)

\* git log --pretty=oneline --reverse from..to: a line '<hash> <subject>' for
\* each commit, oldest first.
OnelineLog(from, to) ==
  LET cs      == Reverse(RevList(from, to))
      Line(c) == <<ShaToken(c), Ch(" ")>>
                   \o [m \in 1..Len(SubjectOf(c)) |-> Ch(SubjectOf(c)[m])]
                   \o <<Ch("\n")>>
  IN  Join(<<>>, [k \in 1..Len(cs) |-> Line(cs[k])])

\* Lines 247-253: the stripped log.
log == Strip(OnelineLog(merge_base, HeadCommit), WhitespaceTokens)

\* line.split()[0]: what precedes the first white space of the line.
FirstWord(line) ==
  LET l  == LStrip(line, WhitespaceTokens)
      ks == {k \in 1..Len(l) : l[k] \in WhitespaceTokens}
  IN  IF ks = {} THEN l
      ELSE SubSeq(l, 1, (CHOOSE k \in ks : \A m \in ks : k <= m) - 1)

\* The hashes read newest first.
DiscoveredShas_NewestFirst == RevList(merge_base, HeadCommit)

\* Lines 259-263: the first word of each line of the log.
DiscoveredShas ==
  LET lines == Split(log, Ch("\n"))
  IN  [k \in 1..Len(lines) |-> FirstWord(lines[k])[1].sha[1]]

DiscoverChain ==
  /\ pc = "discover"
  /\ \E status \in ExitStatuses :
       /\ last_call' = Call(status, FALSE)
       /\ IF ExecuteExits(status, FALSE)
          THEN SysExit(1, "command")
               /\ UNCHANGED <<shas, i, previous, parent_review_request_id>>
          ELSE IF Len(log) <= 0
          THEN SysExit(1, "no_commits")
               /\ UNCHANGED <<shas, i, previous, parent_review_request_id>>
          ELSE /\ shas' = DiscoveredShas
               /\ i' = 1
               /\ previous' = tracking_branch
               /\ parent_review_request_id' = None
               /\ Continue("loop_head")
  /\ UNCHANGED styleVars
  /\ UNCHANGED <<os_name, gitVars, atexit, clientVars, j, review_request_id,
                 message, output, url, old_sha, new_sha, histVars>>

\* ------------------------------------------------------------- the loop

\* shas[i] of line 269 (chain positions count from 1 here).
sha == shas[i]

\* A loop variable that passes over a position.
NextIndex_Skip(k) == k + 2

\* Line 268: the next value of the loop variable.
NextIndex(k) == k + 1

\* A deletion that fails whenever there is a branch to delete.
DeleteTempStatus_Fails == IF temp_ref # None THEN 1 ELSE 0

\* git branch -D <temporary_branch>: it fails when the branch is absent or
\* checked out.
DeleteTempStatus ==
  IF temp_ref # None /\ head.on # "temp" THEN 0 ELSE 1

\* Lines 268-271: the end of the loop, or the best-effort deletion of the
\* temporary branch that starts an iteration.
LoopHead ==
  /\ pc = "loop_head"
  /\ IF i > Len(shas)
     THEN SysExit(0, "completed") /\ UNCHANGED <<temp_ref, last_call>>
     ELSE /\ last_call' = Call(DeleteTempStatus, TRUE)
          /\ IF ExecuteExits(DeleteTempStatus, TRUE)
             THEN SysExit(1, "command") /\ UNCHANGED temp_ref
             ELSE /\ temp_ref' = IF DeleteTempStatus = 0 THEN None
                                 ELSE temp_ref
                  /\ Continue("get_message")
  /\ UNCHANGED styleVars
  /\ UNCHANGED <<os_name, branch, branch_ref, head, atexit, clientVars,
                 loopVars, histVars>>

\* Lines 273-279.
GetMessage ==
  /\ pc = "get_message"
  /\ \E status \in ExitStatuses :
       /\ last_call' = Call(status, FALSE)
       /\ IF ExecuteExits(status, FALSE)
          THEN SysExit(1, "command")
               /\ UNCHANGED <<message, review_request_id>>
          ELSE /\ message' = LogFormat(previous, sha)
               /\ review_request_id' = None
               /\ Continue("detect_trailer")
  /\ UNCHANGED styleVars
  /\ UNCHANGED <<os_name, gitVars, atexit, clientVars, shas, i, j, previous,
                 parent_review_request_id, output, url, old_sha, new_sha,
                 histVars>>

\* No message names an existing review request.
ExistingReview_Never(msg) == [ok |-> TRUE, id |-> None]

\* Lines 281-294: the id of an existing review request, None without a
\* trailer; not ok for a trailer the pattern does not match.
ExistingReview(msg) ==
  IF Find(msg, <<ReviewWord>>) = 0 THEN [ok |-> TRUE, id |-> None]
  ELSE IF TrailerSearch(msg) = None THEN [ok |-> FALSE, id |-> None]
  ELSE [ok |-> TRUE, id |-> Some(Basename(TrailerSearch(msg)[1]))]

\* Lines 281-326: trailer detection, then the commit and its parents are
\* shown (check_output of git log, which raises on a non-zero status) and
\* the prompt is printed.
DetectTrailer ==
  /\ pc = "detect_trailer"
  /\ IF ~ExistingReview(message).ok
     THEN /\ SysExit(1, "bad_trailer")
          /\ UNCHANGED <<review_request_id, trace, last_call>>
     ELSE \E status \in ExitStatuses :
            /\ last_call' = Call(status, FALSE)
            /\ review_request_id' = ExistingReview(message).id
            /\ IF status # 0
               THEN SysExit(1, "command") /\ UNCHANGED trace
               ELSE /\ trace' = Append(trace, Event("prompt", i))
                    /\ Continue("prompt")
  /\ UNCHANGED styleVars
  /\ UNCHANGED <<os_name, gitVars, atexit, clientVars, shas, i, j, previous,
                 parent_review_request_id, message, output, url, old_sha,
                 new_sha, posts, created, orig, run, next_id>>

\* The keys the user may answer the prompt with.
UserKeys ==
  IF os_name = "nt" THEN {"y", "n", "ctrl_d"} ELSE {"enter", "ctrl_c", "eof"}

\* Lines 119-133: enter posts, Ctrl-C skips; the end of input raises
\* EOFError, which nothing catches.
user_skipped_review_unix(key) ==
  CASE key = "ctrl_c" -> "skip"
    [] key = "enter"  -> "post"
    [] OTHER          -> "raise"

\* Lines 68-117: 'y' posts, 'n' skips, ^D ends the script with exit code 0.
user_skipped_review_win32(key) ==
  CASE key = "y"      -> "post"
    [] key = "ctrl_d" -> "exit"
    [] OTHER          -> "skip"

\* Lines 136-139.
user_skipped_review(key) ==
  IF os_name = "nt" THEN user_skipped_review_win32(key)
  ELSE user_skipped_review_unix(key)

\* Python's truth of an optional string.
Truthy(opt) == opt # None /\ opt[1] # <<>>

InSeq(x, s) == \E k \in 1..Len(s) : s[k] = x

\* Revisions passed as arguments to every rbt, whatever its version.
UsesRevisionArgs_AnyRbt == InSeq(rbt_executable, post_review[1])

\* Line 346: revisions are passed as arguments to rbt from 0.6 on.
UsesRevisionArgs ==
  /\ InSeq(rbt_executable, post_review[1])
  /\ VersionAtLeast(rbt_version[1], RBTools_0_6)

\* Line 349: --depends-on is passed only inside the branch of line 346.
DependsOn ==
  IF /\ UsesRevisionArgs
     /\ VersionAtLeast(rbt_version[1], RBTools_0_6_1)
     /\ Truthy(parent_review_request_id)
  THEN parent_review_request_id
  ELSE None

\* Lines 334-359: the client invocation for chain position i.
Command ==
  [ pos               |-> i,
    client            |-> post_review[1][1],
    review_request_id |-> IF Truthy(review_request_id)
                          THEN review_request_id ELSE None,
    depends_on        |-> DependsOn,
    revisions         |-> IF UsesRevisionArgs THEN "args" ELSE "range",
    previous          |-> previous,
    sha               |-> sha,
    returned          |-> FALSE ]

\* The previous revision left as it was.
NextPrevious_Kept(prev, cur) == prev

\* Lines 330 and 368: the next iteration's previous revision.
NextPrevious(prev, cur) == cur

\* Lines 331, 369 and 418: the next iteration's parent review.
NextParent(parent, rrid) == rrid

\* Lines 328-332: the prompt.  A skip advances to the next position.
Prompt ==
  /\ pc = "prompt"
  /\ \E key \in UserKeys :
       CASE user_skipped_review(key) = "skip" ->
              /\ i' = NextIndex(i)
              /\ previous' = NextPrevious(previous, sha)
              /\ parent_review_request_id' =
                   NextParent(parent_review_request_id, review_request_id)
              /\ trace' = Append(trace, Event("skip", i))
              /\ Continue("loop_head")
         [] user_skipped_review(key) = "post" ->
              /\ trace' = Append(trace, Event("confirm", i))
              /\ Continue("post")
              /\ UNCHANGED <<i, previous, parent_review_request_id>>
         [] user_skipped_review(key) = "exit" ->
              /\ SysExit(0, "user_exit")
              /\ UNCHANGED <<i, previous, parent_review_request_id, trace>>
         [] OTHER ->
              /\ SysExit(1, "eof")
              /\ UNCHANGED <<i, previous, parent_review_request_id, trace>>
  /\ UNCHANGED styleVars
  /\ UNCHANGED <<os_name, gitVars, atexit, clientVars, shas, j,
                 review_request_id, message, output, url, old_sha, new_sha,
                 last_call, posts, created, orig, run, next_id>>

\* Lines 334-361: the command is built and the client started.
Post ==
  /\ pc = "post"
  /\ posts' = Append(posts, Command)
  /\ trace' = Append(trace, Event("post", i))
  /\ Continue("post_wait")
  /\ UNCHANGED styleVars
  /\ UNCHANGED <<os_name, gitVars, atexit, clientVars, loopVars, last_call,
                 created, orig, run, next_id>>

\* Lines 361-370: the client returns.  After an update the loop advances;
\* after a create the server has a new review request and the output names
\* its url.
PostReturn ==
  /\ pc = "post_wait"
  /\ posts' = [posts EXCEPT ![Len(posts)].returned = TRUE]
  /\ \E status \in ExitStatuses :
       /\ last_call' = Call(status, FALSE)
       /\ IF ExecuteExits(status, FALSE)
          THEN /\ SysExit(1, "command")
               /\ UNCHANGED <<output, i, previous, parent_review_request_id,
                              next_id, trace>>
          ELSE IF review_request_id # None
          THEN /\ output' = <<"updated">>
               /\ i' = NextIndex(i)
               /\ previous' = NextPrevious(previous, sha)
               /\ parent_review_request_id' =
                    NextParent(parent_review_request_id, review_request_id)
               /\ trace' = Append(trace, Event("updated", i))
               /\ Continue("loop_head")
               /\ UNCHANGED next_id
          ELSE /\ next_id' = next_id + 1
               /\ \E out \in ClientOutputs(post_review[1][1],
                                           ReviewUrl(ServerId(next_id + 1))) :
                    output' = Strip(out, Whitespace)
               /\ trace' = Append(trace, Event("posted", i))
               /\ Continue("select_url")
               /\ UNCHANGED <<i, previous, parent_review_request_id>>
  /\ UNCHANGED styleVars
  /\ UNCHANGED <<os_name, gitVars, atexit, clientVars, shas, j,
                 review_request_id, message, url, old_sha, new_sha, created,
                 orig, run>>

\* Python's lines[n] for n >= -len(lines), as an index from 1.
PyIndex(lines, n) == IF n < 0 THEN Len(lines) + n + 1 ELSE n + 1

\* Lines 376-377: the line of the output that holds the review url.
UrlLine(lines) ==
  IF InSeq("rbt", post_review[1])
  THEN lines[PyIndex(lines, Len(lines) - 2)]
  ELSE lines[PyIndex(lines, Len(lines) - 1)]

\* Lines 372-377.
SelectUrl ==
  /\ pc = "select_url"
  /\ url' = UrlLine(Split(output, "\n"))
  /\ Continue("normalize_url")
  /\ UNCHANGED styleVars
  /\ UNCHANGED <<os_name, gitVars, atexit, clientVars, shas, i, j, previous,
                 parent_review_request_id, review_request_id, message, output,
                 old_sha, new_sha, last_call, histVars>>

\* Only the slashes at the ends are removed.
NormalizeUrl_SlashOnly(u) == Strip(u, {"/"})

\* Lines 383-384.
NormalizeUrl(u) == Strip(Replace(u, DiffSegment, <<>>), {"/"})

\* Line 388.
NewMessage(msg, u) == msg \o <<"\n">> \o <<ReviewWord, " ">> \o u \o <<"\n">>

\* Lines 379-388.
Normalize ==
  /\ pc = "normalize_url"
  /\ url' = NormalizeUrl(url)
  /\ review_request_id' = Some(Basename(url'))
  /\ message' = NewMessage(message, url')
  /\ Continue("checkout_temp")
  /\ UNCHANGED styleVars
  /\ UNCHANGED <<os_name, gitVars, atexit, clientVars, shas, i, j, previous,
                 parent_review_request_id, output, old_sha, new_sha,
                 last_call, histVars>>

\* ------------------------------------------------------- amend and rebase

\* Line 390, git checkout -b <temporary_branch>: it fails when the branch
\* exists.
CheckoutTemp ==
  /\ pc = "checkout_temp"
  /\ \E status \in ExitStatuses :
       LET st == IF temp_ref # None THEN 1 ELSE status
       IN  /\ last_call' = Call(st, FALSE)
           /\ IF ExecuteExits(st, FALSE)
              THEN SysExit(1, "command") /\ UNCHANGED <<temp_ref, head>>
              ELSE /\ temp_ref' = Some(HeadCommit)
                   /\ head' = OnTemp
                   /\ Continue("reset_hard")
  /\ UNCHANGED styleVars
  /\ UNCHANGED <<os_name, branch, branch_ref, atexit, clientVars, loopVars,
                 histVars>>

\* Line 391, git reset --hard <sha> on the temporary branch.
ResetHard ==
  /\ pc = "reset_hard"
  /\ \E status \in ExitStatuses :
       /\ last_call' = Call(status, FALSE)
       /\ IF ExecuteExits(status, FALSE)
          THEN SysExit(1, "command") /\ UNCHANGED temp_ref
          ELSE temp_ref' = Some(sha) /\ Continue("amend")
  /\ UNCHANGED styleVars
  /\ UNCHANGED <<os_name, branch, branch_ref, head, atexit, clientVars,
                 loopVars, histVars>>

\* git commit --amend -m <msg> with HEAD at c: the same parent and diff under
\* the new message.
AmendedCommit(c, msg) == Commit(c.parent, CleanupMessage(msg), c.diff)

\* Line 392.
Amend ==
  /\ pc = "amend"
  /\ \E status \in ExitStatuses :
       /\ last_call' = Call(status, FALSE)
       /\ IF ExecuteExits(status, FALSE)
          THEN SysExit(1, "command") /\ UNCHANGED <<temp_ref, trace>>
          ELSE /\ temp_ref' = Some(AmendedCommit(temp_ref[1], message))
               /\ trace' = Append(trace, Event("amend", i))
               /\ Continue("rebase_init")
  /\ UNCHANGED styleVars
  /\ UNCHANGED <<os_name, branch, branch_ref, head, atexit, clientVars,
                 loopVars, posts, created, orig, run, next_id>>

\* Lines 395-397: the temporary branch's ref is read.
RebaseInit ==
  /\ pc = "rebase_init"
  /\ \E status \in ExitStatuses :
       /\ last_call' = Call(status, FALSE)
       /\ IF ExecuteExits(status, FALSE)
          THEN SysExit(1, "command") /\ UNCHANGED <<j, old_sha, previous>>
          ELSE /\ j' = i + 1
               /\ old_sha' = temp_ref[1]
               /\ previous' = temp_ref[1]
               /\ Continue("rebase_checkout")
  /\ UNCHANGED styleVars
  /\ UNCHANGED <<os_name, gitVars, atexit, clientVars, shas, i,
                 parent_review_request_id, review_request_id, message, output,
                 url, new_sha, histVars>>

\* Lines 398-399: the loop test and git checkout shas[j].
RebaseCheckout ==
  /\ pc = "rebase_checkout"
  /\ IF j > Len(shas)
     THEN Continue("update_branch") /\ UNCHANGED <<head, last_call>>
     ELSE \E status \in ExitStatuses :
            /\ last_call' = Call(status, FALSE)
            /\ IF ExecuteExits(status, FALSE)
               THEN SysExit(1, "command") /\ UNCHANGED head
               ELSE head' = Detached(shas[j]) /\ Continue("rebase")
  /\ UNCHANGED styleVars
  /\ UNCHANGED <<os_name, branch, branch_ref, temp_ref, atexit, clientVars,
                 loopVars, histVars>>

\* Line 400, git rebase <temporary_branch> on the detached HEAD.
Rebase ==
  /\ pc = "rebase"
  /\ \E status \in ExitStatuses :
       /\ last_call' = Call(status, FALSE)
       /\ IF ExecuteExits(status, FALSE)
          THEN SysExit(1, "command") /\ UNCHANGED <<head, trace>>
          ELSE /\ head' = Detached(GitRebase(temp_ref[1], HeadCommit))
               /\ trace' = Append(trace, Event("rebase", j))
               /\ Continue("rebase_record")
  /\ UNCHANGED styleVars
  /\ UNCHANGED <<os_name, branch, branch_ref, temp_ref, atexit, clientVars,
                 loopVars, posts, created, orig, run, next_id>>

\* git update-ref <ref> <new> <old>: it fails unless the ref holds <old>.
UpdateRefStatus(ref, old) == IF ref = Some(old) THEN 0 ELSE 1

\* The hash list left as it was.
RecordSha_Stale(hashes, k, new) == hashes

\* Line 409.
RecordSha(hashes, k, new) == [hashes EXCEPT ![k] = new]

\* Lines 402-410: HEAD's hash is read, the temporary branch moved to it and
\* the hash recorded.
RebaseRecord ==
  /\ pc = "rebase_record"
  /\ \E status \in ExitStatuses :
       LET st == IF UpdateRefStatus(temp_ref, old_sha) # 0 THEN 1 ELSE status
       IN  /\ last_call' = Call(st, FALSE)
           /\ IF ExecuteExits(st, FALSE)
              THEN /\ SysExit(1, "command")
                   /\ UNCHANGED <<temp_ref, new_sha, old_sha, shas, j, trace>>
              ELSE /\ new_sha' = HeadCommit
                   /\ temp_ref' = Some(HeadCommit)
                   /\ old_sha' = HeadCommit
                   /\ shas' = RecordSha(shas, j, HeadCommit)
                   /\ j' = j + 1
                   /\ trace' = Append(trace, Event("temp_ref", j))
                   /\ Continue("rebase_checkout")
  /\ UNCHANGED styleVars
  /\ UNCHANGED <<os_name, branch, branch_ref, head, atexit, clientVars, i,
                 previous, parent_review_request_id, review_request_id,
                 message, output, url, posts, created, orig, run, next_id>>

\* Lines 412-418: the working branch's ref is read and moved to the
\* rewritten tip, the value just read being the expected old value.
UpdateBranch ==
  /\ pc = "update_branch"
  /\ \E status \in ExitStatuses :
       LET st == IF UpdateRefStatus(Some(branch_ref), branch_ref) # 0
                 THEN 1 ELSE status
       IN  /\ last_call' = Call(st, FALSE)
           /\ IF ExecuteExits(st, FALSE)
              THEN /\ SysExit(1, "command")
                   /\ UNCHANGED <<branch_ref, new_sha, old_sha, i,
                                  parent_review_request_id, trace, created>>
              ELSE /\ new_sha' = old_sha
                   /\ old_sha' = branch_ref
                   /\ branch_ref' = old_sha
                   /\ i' = NextIndex(i)
                   /\ parent_review_request_id' =
                        NextParent(parent_review_request_id,
                                   review_request_id)
                   /\ trace' = Append(trace, Event("branch_ref", i))
                   /\ created' = [created EXCEPT ![i] = Some(ServerId(next_id))]
                   /\ Continue("loop_head")
  /\ UNCHANGED styleVars
  /\ UNCHANGED <<os_name, branch, temp_ref, head, atexit, clientVars, shas,
                 j, previous, review_request_id, message, output, url, posts,
                 orig, run, next_id>>

\* ------------------------------------------------------------ exit handlers

\* Line 232, registered last and so run first: git checkout <branch>.  A
\* failure makes the handler call sys.exit(1).
AtexitCheckout ==
  /\ pc = "atexit_checkout"
  /\ pc' = "atexit_delete"
  /\ \E status \in ExitStatuses :
       /\ last_call' = Call(status, FALSE)
       /\ IF ExecuteExits(status, FALSE)
          THEN /\ exit_code' = Some(1)
               /\ exit_reason' = IF exit_code = Some(0) THEN "command"
                                 ELSE exit_reason
               /\ UNCHANGED head
          ELSE head' = OnBranch /\ UNCHANGED <<exit_code, exit_reason>>
  /\ UNCHANGED styleVars
  /\ UNCHANGED <<os_name, branch, branch_ref, temp_ref, atexit, clientVars,
                 loopVars, histVars>>

\* Line 229: git branch -D <temporary_branch>, ignoring errors.
AtexitDelete ==
  /\ pc = "atexit_delete"
  /\ last_call' = Call(DeleteTempStatus, TRUE)
  /\ IF ExecuteExits(DeleteTempStatus, TRUE)
     THEN /\ exit_code' = Some(1)
          /\ exit_reason' = "command"
          /\ UNCHANGED temp_ref
     ELSE /\ temp_ref' = IF DeleteTempStatus = 0 THEN None ELSE temp_ref
          /\ UNCHANGED <<exit_code, exit_reason>>
  /\ pc' = "exited"
  /\ UNCHANGED styleVars
  /\ UNCHANGED <<os_name, branch, branch_ref, head, atexit, clientVars,
                 loopVars, histVars>>

\* The script is started again on the branch as the last run left it.
Rerun ==
  /\ pc = "exited"
  /\ run < MaxRuns
  /\ head.on = "branch"
  /\ run' = run + 1
  /\ pc' = "select_client"
  /\ atexit' = FALSE
  /\ post_review' = None
  /\ rbt_version' = None
  /\ shas' = <<>>
  /\ i' = 1
  /\ j' = 1
  /\ previous' = BaseCommit
  /\ parent_review_request_id' = None
  /\ review_request_id' = None
  /\ message' = <<>>
  /\ output' = <<>>
  /\ url' = <<>>
  /\ old_sha' = BaseCommit
  /\ new_sha' = BaseCommit
  /\ exit_code' = None
  /\ exit_reason' = "running"
  /\ last_call' = Call(0, FALSE)
  /\ posts' = <<>>
  /\ trace' = <<>>
  /\ UNCHANGED styleVars
  /\ UNCHANGED <<os_name, gitVars, created, orig, next_id>>

\* ------------------------------------------------------------ specification

\* One run of the script.
Next ==
  \/ SelectClient
  \/ CheckUnstaged
  \/ CheckStaged
  \/ SymbolicRef
  \/ DiscoverChain
  \/ LoopHead
  \/ GetMessage
  \/ DetectTrailer
  \/ Prompt
  \/ Post
  \/ PostReturn
  \/ SelectUrl
  \/ Normalize
  \/ CheckoutTemp
  \/ ResetHard
  \/ Amend
  \/ RebaseInit
  \/ RebaseCheckout
  \/ Rebase
  \/ RebaseRecord
  \/ UpdateBranch
  \/ AtexitCheckout
  \/ AtexitDelete

Spec == Init /\ [][Next]_vars

\* Up to MaxRuns runs, one after the other, on the same branch.
NextRerun == Next \/ Rerun

SpecRerun == Init /\ [][NextRerun]_vars

\* ------------------------------------------------- trailer detection alone

\* The review request ids trailer detection is applied to: the strings of
\* one to MaxIdLen digits.
RECURSIVE DigitStrings(_)
DigitStrings(n) ==
  IF n = 0 THEN {<<>>}
  ELSE {<<d>> \o t : d \in Digits, t \in DigitStrings(n - 1)}

ReviewIds == UNION {DigitStrings(n) : n \in 1..MaxIdLen}

\* The messages trailer detection is applied to: a subject and an empty
\* line, with or without an earlier body line that names a review, then the
\* trailer for an id on the configured server or on another host, with or
\* without the line end git log prints after a body.
TrailerInputs ==
  { Subject(1) \o <<"\n", "\n">> \o body \o <<ReviewWord, " ">> \o u \o tail :
      body \in {<<>>, <<ReviewWord, " ", "needed", "\n">>},
      u \in {ReviewUrl(id) : id \in ReviewIds}
              \cup {LookalikeUrl(1), <<"not-a-url">>},
      tail \in {<<>>, <<"\n">>} }

\* A process that is at trailer detection with one of these messages.
InitTrailer ==
  /\ os_name = "posix"
  /\ branch = "topic"
  /\ branch_ref = BaseCommit
  /\ temp_ref = None
  /\ head = OnBranch
  /\ next_id = 0
  /\ created = <<>>
  /\ orig = <<>>
  /\ run = 1
  /\ atexit = TRUE
  /\ post_review = Some(<<"post-review">>)
  /\ rbt_version = None
  /\ shas = <<>>
  /\ i = 1
  /\ j = 1
  /\ previous = BaseCommit
  /\ parent_review_request_id = None
  /\ review_request_id = None
  /\ message \in TrailerInputs
  /\ output = <<>>
  /\ url = <<>>
  /\ old_sha = BaseCommit
  /\ new_sha = BaseCommit
  /\ exit_code = None
  /\ exit_reason = "running"
  /\ last_call = Call(0, FALSE)
  /\ posts = <<>>
  /\ trace = <<>>
  /\ StyleNotStarted
  /\ pc = "trailer_input"

\* Lines 281-294 applied to the message: the url the pattern matched and the
\* review request id, or exit code 1.
TrailerExtract ==
  /\ pc = "trailer_input"
  /\ IF ~ExistingReview(message).ok
     THEN /\ exit_code' = Some(1)
          /\ exit_reason' = "bad_trailer"
          /\ pc' = "trailer_invalid"
          /\ UNCHANGED <<url, review_request_id>>
     ELSE /\ url' = TrailerSearch(message)[1]
          /\ review_request_id' = ExistingReview(message).id
          /\ pc' = "trailer_done"
          /\ UNCHANGED <<exit_code, exit_reason>>
  /\ UNCHANGED styleVars
  /\ UNCHANGED <<os_name, gitVars, atexit, clientVars, shas, i, j, previous,
                 parent_review_request_id, message, output, old_sha, new_sha,
                 last_call, histVars>>

NextTrailer == TrailerExtract

SpecTrailer == InitTrailer /\ [][NextTrailer]_vars

\* ------------------------------------------------------------ mesos-style.py

\* Paths are sequences of atoms: directories, "/", a stem, extensions, and
\* white space.  First lines of files are sequences of characters.

\* Lines 15-17.
source_dirs == << <<"src">>, <<"include">>, <<"3rdparty/libprocess">> >>

\* os.path.join(root, name)
PathJoin(root, name) == root \o <<"/">> \o name

\* The working directory the checker is run from.
Cwd == <<"/mesos">>

\* os.path.abspath of a relative path.
AbsPath(path) == PathJoin(Cwd, path)

\* s[k..] begins with a match of pat, a sequence of sets of atoms.
MatchesAt(s, k, pat) ==
  /\ k + Len(pat) - 1 <= Len(s)
  /\ \A n \in 1..Len(pat) : s[k + n - 1] \in pat[n]

\* Line 22, exclude_files: the alternatives of the pattern.  An atom set
\* holds the atoms the text of the alternative can begin.
exclude_files ==
  { <<{"protobuf-2.4.1"}>>, <<{"gmock-1.6.0"}>>, <<{"glog-0.3.3"}>>,
    <<{"boost-1.53.0"}>>, <<{"libev-4.15"}>>, <<{"java/jni"}>>,
    <<{".pb"}, {".cc"}>>, <<{".pb"}, {".h", ".hpp"}>>, <<{".md"}>> }

\* Line 32: exclude_file_regex.search(path) is not None.
Excluded(path) ==
  \E pat \in exclude_files : \E k \in 1..Len(path) : MatchesAt(path, k, pat)

SourceExtensions == {".cpp", ".hpp", ".cc", ".h"}

\* Lines 24 and 35, source_files: the name ends in one of the extensions;
\* `$` also matches before a line end that ends the name.
SourceCriteria(name) ==
  LET n == Len(name)
  IN  \/ n >= 1 /\ name[n] \in SourceExtensions
      \/ n >= 2 /\ name[n] = "\n" /\ name[n - 1] \in SourceExtensions

\* Lines 26-36, find_candidates: the files under root_dir, in the order of
\* the walk, that are not excluded and are source files.
RECURSIVE find_candidates(_, _)
find_candidates(root_dir, tree) ==
  IF tree = <<>> THEN <<>>
  ELSE LET path == Head(tree).path
           name == SubSeq(path, Len(root_dir) + 2, Len(path))
           rest == find_candidates(root_dir, Tail(tree))
       IN  IF /\ StartsWithAt(path, 1, root_dir \o <<"/">>)
              /\ ~Excluded(path)
              /\ SourceCriteria(name)
           THEN <<path>> \o rest
           ELSE rest

\* Lines 152-157: the candidates of every source root, as absolute paths.
RECURSIVE AllCandidates(_, _)
AllCandidates(dirs, tree) ==
  IF dirs = <<>> THEN <<>>
  ELSE LET found == find_candidates(Head(dirs), tree)
       IN  [k \in 1..Len(found) |-> AbsPath(found[k])]
             \o AllCandidates(Tail(dirs), tree)

SeqToSet(s) == {s[k] : k \in 1..Len(s)}

\* Lines 165-168: the file paths without trailing white space that are
\* candidates.
Filter(file_paths, cands) ==
  LET candidates_set       == SeqToSet(cands)
      clean_file_paths_set == {RStrip(x, Whitespace) : x \in SeqToSet(file_paths)}
  IN  clean_file_paths_set \cap candidates_set

\* source_file.readline() of the file at an absolute path.
ReadLine(path) ==
  LET k == CHOOSE k \in 1..Len(source_tree) :
             AbsPath(source_tree[k].path) = path
  IN  source_tree[k].head

\* Line 131, the characters between [ and ]: a set of characters.
LicenseClass ==
  {"L", "i", "c", "e", "n", "s", "d", "|", "C", "o", "p", "y", "r", "g",
   "h", "t"}

\* Line 131: re.match(r'^\/\/ [Licensed|Copyright]', head), line being head.
LicenseMatch(line) ==
  /\ Len(line) >= 4
  /\ line[1] = "/"
  /\ line[2] = "/"
  /\ line[3] = " "
  /\ line[4] \in LicenseClass

\* Lines 121-138: one error for every path whose first line does not match.
RECURSIVE check_license_header(_)
check_license_header(source_paths) ==
  IF source_paths = {} THEN 0
  ELSE LET path == CHOOSE p \in source_paths : TRUE
           rest == check_license_header(source_paths \ {path})
       IN  IF ~LicenseMatch(ReadLine(path)) THEN rest + 1 ELSE rest

\* The status the parent of a POSIX process reads: the low eight bits of the
\* argument of sys.exit.
ExitStatus(n) == n % 256

\* The files of the source roots the checker is run on, in the order of the
\* walk: a source file, a header, a source file whose name ends in a line
\* end, a generated file, and a file that is not C++.
TreePaths ==
  << <<"src", "/", "a", ".cpp">>,
     <<"src", "/", "a", ".cpp", "\n">>,
     <<"src", "/", "m", ".pb", ".cc">>,
     <<"src", "/", "t", ".py">>,
     <<"include", "/", "b", ".hpp">> >>

Licensed == <<"L", "i", "c", "e", "n", "s", "e", "d">>

Copyright == <<"C", "o", "p", "y", "r", "i", "g", "h", "t">>

CommentPrefix == <<"/", "/", " ">>

\* First lines: the two accepted headers, a header without the comment
\* prefix, and two comments that begin with another word.
HeadLines ==
  { CommentPrefix \o Licensed \o <<" ", "t", "o", "\n">>,
    CommentPrefix \o Copyright \o <<" ", "2", "0", "1", "5", "\n">>,
    Copyright \o <<" ", "2", "0", "1", "5", "\n">>,
    CommentPrefix \o <<"T", "h", "i", "s", " ", "f", "i", "l", "e", "\n">>,
    CommentPrefix \o <<"C", "r", "e", "a", "t", "e", "d", "\n">> }

RECURSIVE Ascending(_)
Ascending(S) ==
  IF S = {} THEN <<>>
  ELSE LET m == CHOOSE x \in S : \A y \in S : x <= y
       IN  <<m>> \o Ascending(S \ {m})

\* Up to MaxFiles of the files, each with one of the first lines.
SourceTrees ==
  UNION { LET order == Ascending(S)
          IN  { [k \in 1..Len(order) |->
                   [path |-> TreePaths[order[k]], head |-> heads[k]]] :
                heads \in [1..Len(order) -> HeadLines] } :
          S \in {T \in SUBSET (1..Len(TreePaths)) : Cardinality(T) <= MaxFiles} }

\* What a command line names: a candidate, the same with trailing white
\* space, the same relative to the working directory, and a generated file.
SuppliedPaths ==
  { AbsPath(TreePaths[1]),
    AbsPath(TreePaths[1]) \o <<"\n">>,
    TreePaths[1],
    AbsPath(TreePaths[3]) }

\* What cpplint.LintFiles reports for a run.
LintCounts == {0, 1, 255}

InitStyle ==
  /\ os_name = "posix"
  /\ branch = "topic"
  /\ branch_ref = BaseCommit
  /\ temp_ref = None
  /\ head = OnBranch
  /\ next_id = 0
  /\ created = <<>>
  /\ orig = <<>>
  /\ run = 1
  /\ atexit = FALSE
  /\ post_review = None
  /\ rbt_version = None
  /\ shas = <<>>
  /\ i = 1
  /\ j = 1
  /\ previous = BaseCommit
  /\ parent_review_request_id = None
  /\ review_request_id = None
  /\ message = <<>>
  /\ output = <<>>
  /\ url = <<>>
  /\ old_sha = BaseCommit
  /\ new_sha = BaseCommit
  /\ exit_code = None
  /\ exit_reason = "running"
  /\ last_call = Call(0, FALSE)
  /\ posts = <<>>
  /\ trace = <<>>
  /\ source_tree \in SourceTrees
  /\ argv \in UNION {[1..n -> SuppliedPaths] : n \in 0..MaxArgs}
  /\ candidates = None
  /\ filtered_candidates_set = {}
  /\ license_errors = None
  /\ lint_errors = None
  /\ stdout = <<>>
  /\ pc = "style_dirs"

StyleFrame ==
  UNCHANGED <<os_name, gitVars, atexit, clientVars, loopVars, exit_reason,
              last_call, histVars, source_tree, argv>>

\* Lines 145-149: a source root that does not exist ends the run with exit
\* code 1.  A root that holds a file exists.
CheckSourceDirs ==
  /\ pc = "style_dirs"
  /\ \/ \E d \in 1..Len(source_dirs) :
          /\ \A k \in 1..Len(source_tree) :
               ~StartsWithAt(source_tree[k].path, 1, source_dirs[d] \o <<"/">>)
          /\ stdout' = << <<"Could not find '">> \o source_dirs[d] \o <<"'">>,
                          <<"Please run from the root of the mesos source directory">> >>
          /\ exit_code' = Some(ExitStatus(1))
          /\ pc' = "style_exited"
     \/ /\ pc' = "style_find"
        /\ UNCHANGED <<stdout, exit_code>>
  /\ UNCHANGED <<candidates, filtered_candidates_set, license_errors,
                 lint_errors>>
  /\ StyleFrame

\* Lines 152-157.
FindCandidates ==
  /\ pc = "style_find"
  /\ candidates' = Some(AllCandidates(source_dirs, source_tree))
  /\ pc' = "style_filter"
  /\ UNCHANGED <<filtered_candidates_set, license_errors, lint_errors,
                 stdout, exit_code>>
  /\ StyleFrame

\* Lines 161-172: the paths of the command line, or the candidates without
\* one, narrowed to the candidates.
FilterCandidates ==
  /\ pc = "style_filter"
  /\ LET file_paths == IF Len(argv) > 0 THEN argv ELSE candidates[1]
         filtered   == Filter(file_paths, candidates[1])
     IN  /\ filtered_candidates_set' = filtered
         /\ IF filtered # {}
            THEN /\ stdout' = Append(stdout, <<"Checking ", Cardinality(filtered),
                                               " files">>)
                 /\ pc' = "style_license"
            ELSE /\ UNCHANGED stdout
                 /\ pc' = "style_none"
  /\ UNCHANGED <<candidates, license_errors, lint_errors, exit_code>>
  /\ StyleFrame

\* Line 173.
CheckLicense ==
  /\ pc = "style_license"
  /\ license_errors' = Some(check_license_header(filtered_candidates_set))
  /\ pc' = "style_lint"
  /\ UNCHANGED <<candidates, filtered_candidates_set, lint_errors, stdout,
                 exit_code>>
  /\ StyleFrame

\* Line 174, run_lint (lines 79-119): the count cpplint returns.
RunLint ==
  /\ pc = "style_lint"
  /\ \E errors_found \in LintCounts : lint_errors' = Some(errors_found)
  /\ pc' = "style_total"
  /\ UNCHANGED <<candidates, filtered_candidates_set, license_errors, stdout,
                 exit_code>>
  /\ StyleFrame

\* Lines 175-178.
ExitTotal ==
  /\ pc = "style_total"
  /\ LET total_errors == license_errors[1] + lint_errors[1]
     IN  exit_code' = Some(ExitStatus(total_errors))
  /\ pc' = "style_exited"
  /\ UNCHANGED <<candidates, filtered_candidates_set, license_errors,
                 lint_errors, stdout>>
  /\ StyleFrame

\* Lines 179-181.
NoFiles ==
  /\ pc = "style_none"
  /\ stdout' = Append(stdout, <<"No files to lint", "\n">>)
  /\ exit_code' = Some(ExitStatus(0))
  /\ pc' = "style_exited"
  /\ UNCHANGED <<candidates, filtered_candidates_set, license_errors,
                 lint_errors>>
  /\ StyleFrame

NextStyle ==
  \/ CheckSourceDirs
  \/ FindCandidates
  \/ FilterCandidates
  \/ CheckLicense
  \/ RunLint
  \/ ExitTotal
  \/ NoFiles

SpecStyle == InitStyle /\ [][NextStyle]_vars

\* ------------------------------------------------------------------ claims

\* The working branch from the merge base to its tip, oldest first.
BranchChain == Reverse(RevList(merge_base, branch_ref))

LastEvent == IF trace = <<>> THEN Event("none", 0) ELSE trace[Len(trace)]

Happened(e, p) == \E k \in 1..Len(trace) : trace[k] = Event(e, p)

\* The create step at chain position p has just finished.
CreateCompleted(p) == pc = "loop_head" /\ LastEvent = Event("branch_ref", p)

\* new is old followed by an empty line and one 'Review: <u>' line.
GainedTrailer(new, old) ==
  LET u == SubSeq(new, Len(old) + 4, Len(new) - 1)
  IN  /\ Len(new) >= Len(old) + 4
      /\ new = old \o <<"\n">> \o TrailerLine(u)
      /\ ~InSeq("\n", u)

\* C1: after every completed create step at chain position p the working
\* branch is, from the merge base to its tip, a linear chain as long as the
\* chain the run started from, in which every commit but the first has the
\* commit before it as its parent; shas[k] names the commit at position k for
\* every k > p; every commit has the diff it started with; the commit at p
\* has its message followed by the trailer with the review url, and every
\* other commit has the message it started the run with, or that message and
\* the trailer it gained from its own create step earlier in the run.
C1_ChainLinearity ==
  \A p \in 1..Len(shas) :
    CreateCompleted(p) =>
      /\ Len(BranchChain) = Len(orig)
      /\ BranchChain[1].parent = Some(merge_base)
      /\ \A k \in 2..Len(BranchChain) :
           BranchChain[k].parent = Some(BranchChain[k - 1])
      /\ \A k \in (p + 1)..Len(shas) : shas[k] = BranchChain[k]
      /\ \A k \in 1..Len(BranchChain) :
           /\ BranchChain[k].diff = orig[k].diff
           /\ IF k = p
              THEN BranchChain[k].msg
                     = orig[k].msg \o <<"\n">> \o TrailerLine(url)
              ELSE IF Happened("branch_ref", k)
              THEN GainedTrailer(BranchChain[k].msg, orig[k].msg)
              ELSE BranchChain[k].msg = orig[k].msg

\* Two creates in a chain of three: the second rewrites a commit that the
\* first had already rebased.
C1_Witness ==
  /\ Len(shas) = 3
  /\ CreateCompleted(2)
  /\ Happened("branch_ref", 1)
  /\ Happened("rebase", 3)

\* The position the loop is at lies in the chain.
InChain == shas # <<>> /\ i \in 1..Len(shas)

\* The pc values between a create's return and the working branch's update.
CreatePcs ==
  {"select_url", "normalize_url", "checkout_temp", "reset_hard", "amend",
   "rebase_init", "rebase_checkout", "rebase", "rebase_record",
   "update_branch"}

\* C2: in a run over a branch on which an earlier run completed a create for
\* the commit at the current position (created[i], the id the server gave),
\* the trailer is recognized and yields that id, the client is invoked as an
\* update of that id, the run does not abort on the trailer and the commit
\* is not amended again.
C2_ResubmissionIdempotent ==
  (InChain /\ created[i] # None) =>
    /\ pc = "detect_trailer" =>
         ExistingReview(message) = [ok |-> TRUE, id |-> created[i]]
    /\ pc = "post_wait" =>
         posts[Len(posts)].review_request_id = created[i]
    /\ pc \notin CreatePcs
    /\ exit_reason # "bad_trailer"

\* The numbers of a version, in order.
VersionNumbers(v) ==
  LET ns == SelectSeq(v, LAMBDA c : c.isnum)
  IN  [k \in 1..Len(ns) |-> ns[k].num]

\* a is at least b as a version number.
RECURSIVE NumbersAtLeast(_, _)
NumbersAtLeast(a, b) ==
  IF b = <<>> THEN TRUE
  ELSE IF a = <<>> THEN FALSE
  ELSE IF Head(a) = Head(b) THEN NumbersAtLeast(Tail(a), Tail(b))
  ELSE Head(a) > Head(b)

\* The review request id on the 'Review: ' line of a stored message, if any.
ReviewLineId(msg) ==
  LET k == Find(msg, <<ReviewWord, " ">>)
  IN  IF k = 0 THEN None
      ELSE Some(Basename(Strip(SubSeq(msg, k + 2, Len(msg)), Whitespace)))

\* C3: every client invocation for a commit after the first passes as
\* --depends-on the review request id of the commit before it on the branch
\* when that commit has one, and passes no --depends-on when it has none or
\* the commit is the first; --depends-on is passed only when the client is
\* rbt with a version of at least 0.6.1.
C3_DependsOnCarrying ==
  pc = "post_wait" =>
    LET c       == posts[Len(posts)]
        prior   == IF c.pos > 1 THEN ReviewLineId(BranchChain[c.pos - 1].msg)
                   ELSE None
        capable == /\ c.client \in {"rbt", "rbt.cmd"}
                   /\ NumbersAtLeast(VersionNumbers(rbt_version[1]),
                                     <<0, 6, 1>>)
    IN  c.depends_on = IF capable THEN prior ELSE None

\* msg (a commit's message as git log prints it) contains 'Review:' and,
\* stripped, does not end with 'Review: <base url>/r/<digits>'.
Malformed(msg) ==
  LET text == Strip(Strip(msg, Whitespace), {"/"})
      body == RStrip(text, Digits)
  IN  /\ Find(msg, <<ReviewWord>>) # 0
      /\ ~ /\ Len(body) < Len(text)
           /\ EndsWith(body, <<ReviewWord, " ">> \o ReviewUrl(<<>>))

\* C4: no commit at or after a commit with a malformed trailer is prompted
\* for, posted or amended, and a run that ends at a commit with a malformed
\* trailer ends with exit code 1.
C4_MalformedTrailerFatal ==
  /\ \A k \in 1..Len(trace) :
       trace[k].e \in {"prompt", "post", "amend"} =>
         \A q \in 1..trace[k].pos : ~Malformed(LogFormatOne(orig[q]))
  /\ (pc = "exited" /\ InChain /\ Malformed(LogFormatOne(orig[i]))) =>
       exit_code = Some(1)

\* The first chain position the run reached whose commit started with a
\* malformed trailer, 0 if there is none.
MalformedAt ==
  LET reached == IF shas = <<>> THEN {}
                 ELSE {q \in 1..Len(shas) :
                         q <= i /\ Malformed(LogFormatOne(orig[q]))}
  IN  IF reached = {} THEN 0
      ELSE CHOOSE q \in reached : \A r \in reached : q <= r

\* A fatal precondition of the claim failed in this run.
FatalPrecondition ==
  \/ exit_reason \in {"no_client", "unstaged", "staged", "master",
                      "no_commits"}
  \/ MalformedAt # 0

\* C5: a run in which a fatal precondition failed ends with exit code 1 and
\* has made no client invocation for the failing commit or a later one;
\* every other run ends with exit code 0.
C5_ExitStatus ==
  pc = "exited" =>
    IF FatalPrecondition
    THEN /\ exit_code = Some(1)
         /\ \A k \in 1..Len(posts) :
              posts[k].pos < (IF MalformedAt # 0 THEN MalformedAt ELSE 1)
    ELSE exit_code = Some(0)

ExitPcs == {"atexit_checkout", "atexit_delete", "exited"}

\* C6: a command that is not best-effort and ends with a non-zero status
\* ends the run with exit code 1 at once; once the run is ending no commit
\* is prompted for, no review is posted and the working branch's ref does
\* not move; a failed best-effort deletion of the temporary branch lets the
\* loop go on to read the commit's message, and in the exit handler leaves
\* the exit code as it was.
C6_ProcessFailure ==
  [][ /\ (last_call'.status # 0 /\ ~last_call'.ignore_errors) =>
           exit_code' = Some(1) /\ pc' \in ExitPcs
      /\ exit_code # None =>
           pc' \in ExitPcs /\ UNCHANGED <<trace, posts, branch_ref>>
      /\ (pc = "loop_head" /\ InChain /\ last_call'.status # 0) =>
           /\ last_call'.ignore_errors
           /\ pc' = "get_message"
           /\ exit_code' = None
      /\ pc = "atexit_delete" => exit_code' = exit_code
    ]_vars

\* A command failed after the first commit was amended and before the
\* working branch was moved.
C6_Witness ==
  /\ pc = "exited"
  /\ exit_reason = "command"
  /\ exit_code = Some(1)
  /\ Happened("amend", 1)
  /\ ~Happened("branch_ref", 1)

\* C7: a skipped commit is never posted and never amended, and the next
\* thing the run does is prompt for the next position, with the skipped
\* commit as the previous revision; a confirmed commit is posted exactly
\* once.
C7_SkipSemantics ==
  \A k \in 1..Len(trace) :
    LET p == trace[k].pos
    IN  /\ trace[k].e = "skip" =>
             /\ ~Happened("post", p) /\ ~Happened("amend", p)
             /\ \A m \in 1..Len(posts) :
                  /\ posts[m].pos # p
                  /\ posts[m].pos = p + 1 => posts[m].previous = shas[p]
             /\ IF k < Len(trace) THEN trace[k + 1] = Event("prompt", p + 1)
                ELSE /\ i = p + 1
                     /\ previous = shas[p]
                     /\ pc = "loop_head" => exit_code = None
        /\ trace[k].e = "confirm" =>
             /\ k < Len(trace) => trace[k + 1] = Event("post", p)
             /\ Cardinality({m \in 1..Len(posts) : posts[m].pos = p})
                  = IF k < Len(trace) THEN 1 ELSE 0

\* The first commit was skipped and the client is running for the second.
C7_Witness ==
  /\ pc = "post_wait"
  /\ i = 2
  /\ Happened("skip", 1)
  /\ posts[Len(posts)].pos = 2

\* C8: the client is invoked in strictly increasing chain position, only
\* the last invocation can be unreturned, the amend directly follows the
\* successful return of the post for the same position, the rebases follow
\* it one position after the other, the working branch moves when the last
\* commit has been rebased, and a prompt directly follows the skip, the
\* update or the working branch's move of the position before it.
C8_Sequential ==
  /\ \A k, m \in 1..Len(posts) : k < m => posts[k].pos < posts[m].pos
  /\ \A k \in 1..Len(posts) :
       ~posts[k].returned => k = Len(posts) /\ pc = "post_wait"
  /\ \A k \in 1..Len(trace) :
       LET e == trace[k].e
           p == trace[k].pos
           b == IF k > 1 THEN trace[k - 1] ELSE Event("none", 0)
       IN  /\ e = "prompt" => /\ b.e \in {"none", "skip", "updated", "branch_ref"}
                              /\ b.pos = p - 1
           /\ e = "post" => b = Event("confirm", p)
           /\ e = "amend" => b = Event("posted", p)
           /\ e = "rebase" => b.e \in {"amend", "temp_ref"} /\ b.pos = p - 1
           /\ e = "temp_ref" => b = Event("rebase", p)
           /\ e = "branch_ref" => /\ b.e \in {"amend", "temp_ref"}
                                  /\ b.pos = Len(shas)
                                  /\ Happened("amend", p)

\* The second commit is prompted for after the create of the first rebased
\* it and moved the working branch.
C8_Witness ==
  /\ pc = "prompt"
  /\ i = 2
  /\ Happened("rebase", 2)
  /\ Happened("branch_ref", 1)

\* C9: the url of a create is the second to last line of the client's
\* stripped output when the client is rbt, under either name of its
\* executable, and the last line when the client is post-review.
C9_UrlLineSelection ==
  pc = "normalize_url" =>
    LET lines == Split(output, "\n")
        n     == Len(lines)
    IN  url = IF post_review[1][1] \in {"rbt", "rbt.cmd"} /\ n >= 2
              THEN lines[n - 1]
              ELSE lines[n]

\* line without its trailing slashes and trailing diff segment.
TrimmedUrl(line) ==
  LET a == RStrip(line, {"/"})
      b == IF EndsWith(a, <<"/", "d", "i", "f", "f">>)
           THEN SubSeq(a, 1, Len(a) - 4) ELSE a
  IN  RStrip(b, {"/"})

\* What follows the last slash of u.
LastSegment(u) ==
  LET slashes == {k \in 1..Len(u) : u[k] = "/"}
  IN  IF slashes = {} THEN u
      ELSE SubSeq(u, (CHOOSE k \in slashes : \A m \in slashes : m <= k) + 1,
                  Len(u))

\* C10: when the selected line of the client's output ends with slashes or
\* with a diff/ segment, the url is that line without them, the review
\* request id is the url's last path segment (the id the server gave when the
\* line is that review request's url), and the message to commit, and then
\* the amended commit, end with the 'Review: <url>' trailer.
C10_UrlNormalization ==
  LET line == UrlLine(Split(output, "\n"))
      u    == ReviewUrl(ServerId(next_id))
  IN  (/\ pc \in {"checkout_temp", "reset_hard", "amend", "rebase_init"}
       /\ EndsWith(line, <<"/">>)) =>
        /\ url = TrimmedUrl(line)
        /\ ~EndsWith(url, <<"/">>)
        /\ ~EndsWith(url, <<"d", "i", "f", "f">>)
        /\ review_request_id = Some(LastSegment(url))
        /\ line \in {u \o <<"/">>, u \o <<"/">> \o DiffSegment} =>
             review_request_id = Some(ServerId(next_id))
        /\ EndsWith(message, TrailerLine(url))
        /\ pc = "rebase_init" => EndsWith(temp_ref[1].msg, TrailerLine(url))

\* A commit was amended after the client printed a url line ending in diff/.
C10_Witness ==
  /\ pc = "rebase_init"
  /\ EndsWith(UrlLine(Split(output, "\n")), DiffSegment)
  /\ review_request_id = Some(ServerId(next_id))

\* C11: every client invocation passes the two revisions as arguments when
\* the client is rbt with a version of at least 0.6, and as one
\* --revision-range option otherwise (post-review, or an older rbt).
C11_RevisionRangeFormat ==
  \A k \in 1..Len(posts) :
    LET c      == posts[k]
        modern == /\ c.client \in {"rbt", "rbt.cmd"}
                  /\ NumbersAtLeast(VersionNumbers(rbt_version[1]), <<0, 6>>)
    IN  /\ c.revisions \in {"args", "range"}
        /\ c.revisions = "args" <=> modern

\* An rbt older than 0.6 is running with the revision range option.
C11_Witness ==
  /\ pc = "post_wait"
  /\ posts[Len(posts)].client \in {"rbt", "rbt.cmd"}
  /\ ~NumbersAtLeast(VersionNumbers(rbt_version[1]), <<0, 6>>)
  /\ posts[Len(posts)].revisions = "range"

\* The commits reachable from the working branch and not from the tracking
\* branch.
RangeCommits == Ancestors(branch_ref) \ Ancestors(tracking_branch)

\* Nothing has been rewritten yet in this run.
NothingRewritten ==
  \A k \in 1..Len(trace) : trace[k].e \notin {"temp_ref", "branch_ref"}

\* C12: the discovered list holds every commit between the merge base and
\* HEAD exactly once, each commit after its ancestors, and not the merge
\* base; the loop is only entered with a non-empty list, and an empty range
\* ends the run with exit code 1 before any commit is handled.
C12_ChainDiscovery ==
  /\ (shas # <<>> /\ NothingRewritten) =>
       /\ {shas[k] : k \in 1..Len(shas)} = RangeCommits
       /\ Len(shas) = Cardinality(RangeCommits)
       /\ \A k, m \in 1..Len(shas) :
            k < m => shas[k] \in Ancestors(shas[m]) \ {shas[m]}
       /\ \A k \in 1..Len(shas) : shas[k] # MergeBase(tracking_branch, branch_ref)
  /\ shas = <<>> => pc \in {"select_client", "check_unstaged", "check_staged",
                            "symbolic_ref", "discover"} \cup ExitPcs
  /\ (RangeCommits = {} /\ pc = "exited") =>
       /\ exit_code = Some(1)
       /\ shas = <<>> /\ trace = <<>> /\ posts = <<>>

\* A chain of three was discovered on a branch whose tracking branch has
\* moved on from the merge base, and the loop is about to start.
C12_Witness ==
  /\ pc = "loop_head"
  /\ tracking_branch # MergeBase(tracking_branch, branch_ref)
  /\ trace = <<>>
  /\ i = 1
  /\ Len(shas) = 3

\* The digits a text ends with.
TrailingDigits(text) ==
  SubSeq(text, Len(RStrip(text, Digits)) + 1, Len(text))

\* C13: when the stripped message ends in 'Review: <base url>/r/<id>' for a
\* non-empty string of digits id, trailer detection accepts it, the id it
\* extracts is exactly id, and the base url with /r/ and the extracted id is
\* the url it matched, which is the url the message ends with.
C13_TrailerRoundTrip ==
  LET text == Strip(message, Whitespace)
      id   == TrailingDigits(text)
  IN  (/\ pc \in {"trailer_done", "trailer_invalid"}
       /\ id # <<>>
       /\ EndsWith(text, <<ReviewWord, " ">> \o ReviewUrl(id))) =>
        /\ pc = "trailer_done"
        /\ review_request_id = Some(id)
        /\ ReviewUrl(review_request_id[1]) = url
        /\ EndsWith(text, <<ReviewWord, " ">> \o url)

\* A two-digit id with a leading zero was extracted from a message that
\* names a review earlier in its body.
C13_Witness ==
  /\ pc = "trailer_done"
  /\ review_request_id = Some(<<"0", "7">>)
  /\ Find(message, <<ReviewWord>>) < Find(message, <<ReviewWord, " ", "https:">>)

\* The style checker checked at least one file and has exited.
CheckedAndExited ==
  /\ pc = "style_exited"
  /\ filtered_candidates_set # {}
  /\ license_errors # None
  /\ lint_errors # None

\* C14: whenever at least one candidate file is checked, the exit code of
\* the style checker is the number of license-header errors plus the number
\* of lint errors, and it is zero exactly when that total is zero.
C14_StyleExitCode ==
  CheckedAndExited =>
    LET total == license_errors[1] + lint_errors[1]
    IN  /\ exit_code = Some(total)
        /\ exit_code = Some(0) <=> total = 0

\* The first line lacks the '// ' prefix, or lacks the leading token
\* Licensed or Copyright after it.
LacksHeader(line) ==
  ~(\/ StartsWithAt(line, 1, CommentPrefix \o Licensed)
    \/ StartsWithAt(line, 1, CommentPrefix \o Copyright))

\* C15: of the checked files, one whose first line begins '// Licensed'
\* passes the license-header check, one whose first line lacks the '// '
\* prefix or the leading token Licensed or Copyright after it fails, and the
\* count check_license_header returns is the number of files that fail.
C15_LicenseHeader ==
  license_errors # None =>
    /\ \A path \in filtered_candidates_set :
         /\ StartsWithAt(ReadLine(path), 1, CommentPrefix \o Licensed) =>
              LicenseMatch(ReadLine(path))
         /\ LacksHeader(ReadLine(path)) => ~LicenseMatch(ReadLine(path))
    /\ license_errors[1] =
         Cardinality({path \in filtered_candidates_set :
                        LacksHeader(ReadLine(path))})

\* The style checker has narrowed the file paths to the candidates.
Filtered ==
  /\ candidates # None
  /\ pc \in {"style_license", "style_lint", "style_total", "style_none",
             "style_exited"}

\* C16: the files the style checker checks are exactly the file paths of
\* the command line, or all candidates without one, that are discovered
\* candidates; when there are none the run prints 'No files to lint', exits
\* 0, and runs neither the license-header check nor the linter.
C16_FileSelection ==
  Filtered =>
    LET supplied == IF argv # <<>> THEN SeqToSet(argv)
                    ELSE SeqToSet(candidates[1])
    IN  /\ filtered_candidates_set = supplied \cap SeqToSet(candidates[1])
        /\ (filtered_candidates_set = {} /\ pc = "style_exited") =>
             /\ stdout = << <<"No files to lint", "\n">> >>
             /\ exit_code = Some(0)
             /\ license_errors = None
             /\ lint_errors = None

\* The positions of the script inside an iteration of the loop.
IterationPcs ==
  {"loop_head", "get_message", "detect_trailer", "prompt", "post",
   "post_wait"} \cup CreatePcs

\* The commit's message ends in the trailer of a review request: the commit
\* can be submitted as an update, or skipped, and never as a create.
NamesReview(c) == TrailerSearch(LogFormatOne(c)) # None

\* A step of an iteration over a commit that names a review request, or the
\* step in which the user skips a commit.
SkipOrUpdateStep ==
  /\ pc \in IterationPcs
  /\ i <= Len(shas)
  /\ \/ NamesReview(shas[i])
     \/ pc = "prompt" /\ trace' = Append(trace, Event("skip", i))

\* The step amends and rebases nothing, and leaves the recorded hashes and
\* the working branch's ref as they are.
NothingRewrittenByStep ==
  /\ shas' = shas
  /\ branch_ref' = branch_ref
  /\ \/ trace' = trace
     \/ /\ Len(trace') = Len(trace) + 1
        /\ trace'[Len(trace')].e \notin {"amend", "rebase", "temp_ref",
                                         "branch_ref"}

\* C17, as stated: during an iteration in which the commit is skipped or
\* submitted as an update, no commit is amended or rebased, the recorded
\* hashes do not change, and neither the working branch's ref nor the
\* temporary branch's ref is updated.
C17_OnlyCreateRewrites ==
  [][SkipOrUpdateStep => (NothingRewrittenByStep /\ temp_ref' = temp_ref)]_vars

\* The best-effort deletion that starts every iteration (line 271) removes
\* the temporary branch an earlier create left behind.
LeftoverDeleted ==
  /\ pc = "loop_head"
  /\ head.on # "temp"
  /\ temp_ref # None
  /\ temp_ref' = None

\* A step of an iteration before the client is started: until then the
\* iteration over a commit that will be skipped is like any other.
BeforePostStep ==
  /\ pc \in {"loop_head", "get_message", "detect_trailer", "prompt"}
  /\ i <= Len(shas)

\* C17, amended: during an iteration in which the commit is skipped or
\* submitted as an update, no commit is amended or rebased, the recorded
\* hashes and the working branch's ref do not change, and the temporary
\* branch's ref is never set: it is only deleted, at the start of the
\* iteration, when an earlier create left it behind.
C17_OnlyCreateRewrites_Amended ==
  [][(SkipOrUpdateStep \/ BeforePostStep) =>
       /\ NothingRewrittenByStep
       /\ temp_ref' = temp_ref \/ LeftoverDeleted]_vars

\* After a create at the first position, whose temporary branch the next
\* iteration deleted, the second commit was submitted as an update and the
\* third was skipped.
C17_Witness ==
  /\ pc = "loop_head"
  /\ Len(trace) >= 2
  /\ LastEvent = Event("skip", 3)
  /\ Happened("branch_ref", 1)
  /\ Happened("updated", 2)
  /\ temp_ref = None
  /\ NamesReview(shas[2])

\* The commits from the merge base (not included) to tip, oldest first.
ChainTo(tip) == Reverse(RevList(merge_base, tip))

\* How many times the event is in the trace.
Count(e, p) == Cardinality({k \in 1..Len(trace) : trace[k] = Event(e, p)})

\* The positions of the script at which no create is under way.
BetweenCreates ==
  {"loop_head", "get_message", "detect_trailer", "prompt", "post",
   "post_wait", "select_url", "normalize_url", "checkout_temp", "reset_hard",
   "amend"}

\* C18: in every state the working branch's ref is the tip of a complete
\* chain: the chain the run started with, in which exactly the commits whose
\* create has finished (the rebase of every later commit included) carry the
\* trailer they gained; a create that was aborted leaves no mark on it.  The
\* ref is moved once per create, at its end, from the value read just before
\* (named as the expected old value) to the tip of the temporary branch.
C18_BranchRefComplete ==
  LET chain    == BranchChain
      moves(k) == Count("branch_ref", k)
      amends(k) == Count("amend", k)
  IN  /\ Len(chain) = Len(orig)
      /\ \A k \in 1..Len(orig) :
           /\ chain[k].diff = orig[k].diff
           /\ IF moves(k) > 0
              THEN GainedTrailer(chain[k].msg, orig[k].msg)
              ELSE chain[k].msg = orig[k].msg
           /\ moves(k) <= 1
           /\ moves(k) <= amends(k)
           /\ amends(k) <= 1
           /\ (pc \in BetweenCreates /\ k < i) => moves(k) = amends(k)
      /\ (\A k \in 1..Len(orig) : moves(k) = 0) =>
           branch_ref = IF orig = <<>> THEN merge_base ELSE orig[Len(orig)]
      /\ (pc = "loop_head" /\ LastEvent.e = "branch_ref") =>
           LET p   == LastEvent.pos
               old == ChainTo(old_sha)
           IN  /\ new_sha = branch_ref
               /\ temp_ref = Some(branch_ref)
               /\ Len(old) = Len(orig)
               /\ \A k \in 1..Len(orig) :
                    /\ old[k].diff = orig[k].diff
                    /\ old[k].msg = IF k = p THEN orig[k].msg ELSE chain[k].msg

\* The run was aborted in the middle of the rebase of the second create,
\* after the first create had finished.
C18_Witness ==
  /\ pc = "exited"
  /\ exit_code = Some(1)
  /\ Len(orig) = 3
  /\ Happened("branch_ref", 1)
  /\ Happened("amend", 2)
  /\ LastEvent = Event("rebase", 3)

\* The positions of an iteration at which previous is the revision the
\* iteration started with.
PreviousInUse ==
  {"loop_head", "get_message", "detect_trailer", "prompt", "post",
   "post_wait", "select_url", "normalize_url", "checkout_temp", "reset_hard",
   "amend", "rebase_init"}

\* C19: during iteration i, previous is the tracking branch at the first
\* position and otherwise the commit now at position i-1 of the branch, the
\* parent of shas[i]; the range previous..shas[i] holds the commit at
\* position i and no other, the message read is that commit's, and every
\* client invocation is given such a range.
C19_OneCommitPerReview ==
  /\ (pc \in PreviousInUse /\ i <= Len(shas)) =>
       /\ i = 1 => previous = tracking_branch
       /\ i > 1 => /\ previous = BranchChain[i - 1]
                   /\ shas[i].parent = Some(previous)
       /\ shas[i] = BranchChain[i]
       /\ RevList(previous, shas[i]) = <<shas[i]>>
       /\ pc \in {"detect_trailer", "prompt", "post", "post_wait",
                  "select_url", "normalize_url"} =>
            message = LogFormatOne(shas[i])
  /\ \A k \in 1..Len(posts) :
       /\ RevList(posts[k].previous, posts[k].sha) = <<posts[k].sha>>
       /\ posts[k].sha.diff = orig[posts[k].pos].diff

\* The third commit is being posted from a branch whose tracking branch has
\* moved on, after a create at the first position and a skip at the second.
C19_Witness ==
  /\ pc = "post_wait"
  /\ i = 3
  /\ tracking_branch # merge_base
  /\ Happened("branch_ref", 1)
  /\ Happened("skip", 2)
  /\ posts[Len(posts)].pos = 3

\* The process has ended after the exit handlers were registered.
ExitedAfterRegistration == pc = "exited" /\ atexit

====
